---- MODULE Spec2Model ----
(***************************************************************************)
(* Model of scikit-multiflow's MultilabelGenerator stream                  *)
(* (skmultiflow/data/generators/multilabel_generator.py) and of the        *)
(* evaluation loop that the demo (skmultiflow/demos/evalStreamSpeed.py)    *)
(* drives it with.                                                         *)
(*                                                                         *)
(* numpy arrays are records: a 2-D array is [kind, ncols, rows], a 1-D     *)
(* array is [kind, elems], Python's None is [kind |-> "None"].  Row i of   *)
(* the Python arrays (0-based) is element i+1 of the TLA+ sequences.       *)
(***************************************************************************)
EXTENDS Integers, Sequences, FiniteSets, TLC

VARIABLES
    X,                   \* self.X: the feature matrix, one row per sample
    y,                   \* self.y: the label matrix, one row per sample
    num_samples,         \* self.num_samples
    num_features,        \* self.num_features
    num_target_tasks,    \* self.num_target_tasks
    instance_index,      \* self.instance_index: the read cursor
    current_instance_x,  \* self.current_instance_x: cached features
    current_instance_y,  \* self.current_instance_y: cached labels
    result,              \* the last call made on the stream and what it returned
    log,                 \* history of the next_instance/restart calls made so far
    harness,             \* the evaluation loop's state
    clf                  \* a classifier: its model and the calls made on it

streamvars == <<X, y, num_samples, num_features, num_target_tasks,
                instance_index, current_instance_x, current_instance_y>>
vars == <<X, y, num_samples, num_features, num_target_tasks, instance_index,
          current_instance_x, current_instance_y, result, log, harness,
          clf>>

(***************************************************************************)
(* Bounds of the model.                                                    *)
(***************************************************************************)
MaxSamples == 4      \* n_samples ranges over 1..MaxSamples
MaxTargets == 2      \* n_targets ranges over 1..MaxTargets
MaxBatch == 3        \* batch_size ranges over 1..MaxBatch
FeatureCounts == {1, 2}      \* the values n_features takes
Seeds == {0, 1}              \* the outcomes of the random generator
MaxCalls == MaxSamples + 2   \* next_instance calls made by a client
MaxInstances == 4    \* a bounded max_instances ranges over 1..MaxInstances
MaxTime == 2         \* a bounded max_time ranges over 1..MaxTime
Unbounded == -1      \* float("inf"): no cap on the instances or on the time
MaxFits == 3         \* first_fit, fit and partial_fit calls made on a classifier
Batches == {1, 2}            \* the (X, y) batches a classifier is given
ClassArgs == {{}, {0, 1}}    \* the classes argument: {} stands for None

Min(a, b) == IF a < b THEN a ELSE b

(***************************************************************************)
(* Values.                                                                 *)
(***************************************************************************)
None == [kind |-> "None"]
Array2D(rows, ncols) == [kind |-> "array2d", ncols |-> ncols, rows |-> rows]
Array1D(elems) == [kind |-> "array1d", elems |-> elems]

\* Number of rows (2-D) or elements (1-D) of an array; 0 for None.
NumRows(a) ==
    IF a.kind = "array2d" THEN Len(a.rows)
    ELSE IF a.kind = "array1d" THEN Len(a.elems)
    ELSE 0

\* The rows (2-D) or elements (1-D) of an array, in order; none for None.
Rows(a) ==
    IF a.kind = "array2d" THEN a.rows
    ELSE IF a.kind = "array1d" THEN a.elems
    ELSE <<>>

(***************************************************************************)
(* make_multilabel_classification(n_samples, n_features, n_classes): an    *)
(* external generator.  It returns an n_samples x n_features matrix and an *)
(* n_samples x n_classes 0/1 matrix; the seed picks one of its outcomes.   *)
(* Rows of X are pairwise different, so that a row delivered out of place  *)
(* shows.                                                                  *)
(***************************************************************************)
make_multilabel_classification(seed, n_samples, n_features, n_classes) ==
    <<Array2D([i \in 1..n_samples |->
                  [j \in 1..n_features |-> 10 * i + j + seed]], n_features),
      Array2D([i \in 1..n_samples |->
                  [k \in 1..n_classes |-> (i + k + seed) % 2]], n_classes)>>

(***************************************************************************)
(* numpy basic slicing a[lo:hi, :] of a 2-D array, for 0 <= lo <= hi: the  *)
(* bounds are clipped to the number of rows, so the slice holds the rows   *)
(* lo .. min(hi, n) - 1 and is empty (0 rows, same columns) when lo >= n.  *)
(***************************************************************************)
\* Variants of the slicing: one row short, and a start clamped into the array.
Slice_short(a, lo, hi) ==
    Array2D(SubSeq(a.rows, Min(lo, Len(a.rows)) + 1, Min(hi, Len(a.rows)) - 1),
            a.ncols)

Slice_clamped(a, lo, hi) ==
    Array2D(SubSeq(a.rows, Min(lo, Len(a.rows) - 1) + 1, Min(hi, Len(a.rows))),
            a.ncols)

\* Variant: the slice starts one row late.
Slice_skip(a, lo, hi) ==
    Array2D(SubSeq(a.rows, Min(lo, Len(a.rows)) + 2, Min(hi, Len(a.rows))),
            a.ncols)

Slice(a, lo, hi) ==
    Array2D(SubSeq(a.rows, Min(lo, Len(a.rows)) + 1, Min(hi, Len(a.rows))),
            a.ncols)

\* Variant: a slice that ends past the last row raises IndexError.
SliceRaises_oob(a, lo, hi) == hi > Len(a.rows)

\* Basic slicing with a slice object never raises IndexError in numpy.
SliceRaises(a, lo, hi) == FALSE

RECURSIVE Concat(_)
Concat(rows) ==
    IF rows = <<>> THEN <<>> ELSE Head(rows) \o Concat(Tail(rows))

\* ndarray.flatten(): the elements in row-major order as a 1-D array.
flatten(a) == Array1D(Concat(a.rows))

(***************************************************************************)
(* MultilabelGenerator                                                     *)
(***************************************************************************)
estimated_remaining_instances == num_samples - instance_index

\* Variant: the comparison off by one.
has_more_instances_ge == num_samples - instance_index >= 0

has_more_instances == num_samples - instance_index > 0

is_restartable == TRUE

get_num_attributes == num_features

get_num_targets == num_target_tasks

get_num_targeting_tasks == num_target_tasks

\* np.unique(self.y): the values of the label matrix, each once, ascending.
RECURSIVE SortedSeq(_)
SortedSeq(S) ==
    IF S = {} THEN <<>>
    ELSE LET m == CHOOSE v \in S : \A w \in S : v <= w
         IN  <<m>> \o SortedSeq(S \ {m})

get_classes ==
    Array1D(SortedSeq({y.rows[i][k] :
                          i \in 1..Len(y.rows), k \in 1..y.ncols}))

\* Variant: the features returned in the labels' place.
get_last_instance_xx == <<current_instance_x, current_instance_x>>

get_last_instance == <<current_instance_x, current_instance_y>>

\* The history kept of the calls: how many next_instance calls were made,
\* the batch size they all shared (0: no call yet, -1: they differ), how
\* many returned a non-empty batch, how many rows they returned in all,
\* whether every call found at least batch_size rows left, what the latest
\* next_instance call returned, and how many next_instance calls were made
\* since the latest restart (-1: no restart yet); also the sum of the batch
\* sizes asked for, the feature rows and the labels returned so far, one
\* batch after the other, and what has_more_instances() was just before the
\* latest call.
LogInit ==
    [calls |-> 0, common |-> 0, nonempty |-> 0, rowsum |-> 0, fits |-> TRUE,
     last |-> <<None, None>>, since_restart |-> -1,
     requested |-> 0, xrows |-> <<>>, yvals |-> <<>>, more_before |-> TRUE]

LogNext(batch_size, ret) ==
    [calls |-> log.calls + 1,
     common |-> IF log.calls = 0 \/ log.common = batch_size
                THEN batch_size ELSE -1,
     nonempty |-> log.nonempty + (IF NumRows(ret[1]) > 0 THEN 1 ELSE 0),
     rowsum |-> log.rowsum + NumRows(ret[1]),
     fits |-> log.fits /\ batch_size <= num_samples - instance_index,
     last |-> ret,
     since_restart |-> IF log.since_restart < 0 THEN -1
                       ELSE log.since_restart + 1,
     requested |-> log.requested + batch_size,
     xrows |-> log.xrows \o Rows(ret[1]),
     yvals |-> log.yvals \o Rows(ret[2]),
     more_before |-> has_more_instances]

\* The evaluation loop before it is started.
HarnessInit ==
    [state |-> "Idle", max_instances |-> Unbounded, max_time |-> Unbounded,
     batch_size |-> 1, classifier |-> FALSE, processed |-> 0, elapsed |-> 0,
     fed |-> 0, reports |-> <<>>]

(***************************************************************************)
(* BaseClassifier.  Its methods are abstract but have bodies, which a      *)
(* concrete learner runs through super(): first_fit calls self.fit, the    *)
(* others are `pass` and return None.  What a learner's own fit and        *)
(* partial_fit leave as the model is FitModel and PartialFitModel; the     *)
(* classifier also keeps count of the calls made on it.                    *)
(***************************************************************************)
\* __init__: `pass`; no model, no call made.
ClfInit ==
    [model |-> [batches |-> <<>>, classes |-> {}],
     fit_calls |-> 0, partial_fit_calls |-> 0, fitted |-> FALSE]

\* A full training from one batch, prior model discarded.
FitModel(a) == [batches |-> <<a.batch>>, classes |-> a.classes]

\* An incremental update: one more batch, the known classes may grow.
PartialFitModel(m, a) ==
    [batches |-> Append(m.batches, a.batch),
     classes |-> m.classes \cup a.classes]

fit(c, a) ==
    [c EXCEPT !.model = FitModel(a), !.fit_calls = @ + 1, !.fitted = TRUE]

partial_fit(c, a) ==
    [c EXCEPT !.model = PartialFitModel(c.model, a),
              !.partial_fit_calls = @ + 1, !.fitted = TRUE]

\* Variants: first_fit that does nothing, and that updates incrementally.
first_fit_pass(c, a) == c

first_fit_partial(c, a) == partial_fit(c, a)

\* first_fit(X, y, classes): self.fit(X, y, classes)
first_fit(c, a) == fit(c, a)

\* predict, predict_proba and score: `pass`, so the call returns None.
predict(c, x) == None

predict_proba(c, x) == None

score(c, x) == None

\* __init__ and __configure
InitStream(n_samples, n_features, n_targets, seed) ==
    LET Xy == make_multilabel_classification(seed, n_samples,
                                             n_features, n_targets)
    IN  /\ X = Xy[1]
        /\ y = Xy[2]
        /\ num_samples = n_samples
        /\ num_features = n_features
        /\ num_target_tasks = n_targets
        /\ instance_index = 0
        /\ current_instance_x = None
        /\ current_instance_y = None
        /\ result = [op |-> "__init__", arg |-> 0, val |-> None]
        /\ log = LogInit
        /\ harness = HarnessInit
        /\ clf = ClfInit

Init ==
    \E n_samples \in 1..MaxSamples, n_features \in FeatureCounts,
       n_targets \in 1..MaxTargets, seed \in Seeds :
        InitStream(n_samples, n_features, n_targets, seed)

\* next_instance(batch_size): the new cursor, the pair it caches and returns.
\* Variants: the cursor advanced one too far, and advanced twice.
next_index_plus1(batch_size) == instance_index + batch_size + 1

next_index_twice(batch_size) == instance_index + 2 * batch_size

\* Variant: the cursor assigned (=) instead of advanced (+=).
next_index_assign(batch_size) == batch_size

next_index(batch_size) == instance_index + batch_size

next_batch(batch_size) ==
    LET idx == next_index(batch_size)
    IN  IF SliceRaises(X, idx - batch_size, idx)
           \/ SliceRaises(y, idx - batch_size, idx)
        THEN <<None, None>>
        ELSE <<Slice(X, idx - batch_size, idx),
               IF num_target_tasks < 2
               THEN flatten(Slice(y, idx - batch_size, idx))
               ELSE Slice(y, idx - batch_size, idx)>>

next_instance(batch_size) ==
    /\ instance_index' = next_index(batch_size)
    /\ current_instance_x' = next_batch(batch_size)[1]
    /\ current_instance_y' = next_batch(batch_size)[2]
    /\ result' = [op |-> "next_instance", arg |-> batch_size,
                  val |-> next_batch(batch_size)]
    /\ log' = LogNext(batch_size, next_batch(batch_size))
    /\ UNCHANGED <<X, y, num_samples, num_features, num_target_tasks>>

\* restart(): its body is `pass`.
restart ==
    /\ result' = [op |-> "restart", arg |-> 0, val |-> None]
    /\ log' = [log EXCEPT !.since_restart = 0]
    /\ UNCHANGED streamvars

\* Variant: a read that drops the cached batch.
Query_clearing(op, val) ==
    /\ result' = [op |-> op, arg |-> 0, val |-> val]
    /\ current_instance_x' = None
    /\ current_instance_y' = None
    /\ UNCHANGED <<X, y, num_samples, num_features, num_target_tasks,
                   instance_index, log>>

\* A call that only reads the stream and returns val.
Query(op, val) ==
    /\ result' = [op |-> op, arg |-> 0, val |-> val]
    /\ UNCHANGED <<streamvars, log>>

(***************************************************************************)
(* A client calling the stream's methods in any order.                     *)
(***************************************************************************)
CallNextInstance ==
    /\ log.calls < MaxCalls
    /\ \E batch_size \in 1..MaxBatch : next_instance(batch_size)
    /\ UNCHANGED <<harness, clf>>

CallRestart == is_restartable /\ restart /\ UNCHANGED <<harness, clf>>

CallHasMoreInstances ==
    Query("has_more_instances", has_more_instances) /\ UNCHANGED <<harness, clf>>

CallEstimatedRemainingInstances ==
    /\ Query("estimated_remaining_instances", estimated_remaining_instances)
    /\ UNCHANGED <<harness, clf>>

CallGetLastInstance ==
    Query("get_last_instance", get_last_instance) /\ UNCHANGED <<harness, clf>>

CallIsRestartable ==
    Query("is_restartable", is_restartable) /\ UNCHANGED <<harness, clf>>

CallGetNumAttributes ==
    Query("get_num_attributes", get_num_attributes) /\ UNCHANGED <<harness, clf>>

CallGetNumTargets ==
    Query("get_num_targets", get_num_targets) /\ UNCHANGED <<harness, clf>>

CallGetNumTargetingTasks ==
    /\ Query("get_num_targeting_tasks", get_num_targeting_tasks)
    /\ UNCHANGED <<harness, clf>>

CallGetClasses ==
    Query("get_classes", get_classes) /\ UNCHANGED <<harness, clf>>

Next ==
    \/ CallNextInstance
    \/ CallRestart
    \/ CallHasMoreInstances
    \/ CallEstimatedRemainingInstances
    \/ CallGetLastInstance
    \/ CallIsRestartable
    \/ CallGetNumAttributes
    \/ CallGetNumTargets
    \/ CallGetNumTargetingTasks
    \/ CallGetClasses

Spec == Init /\ [][Next]_vars

(***************************************************************************)
(* The evaluation loop: EvaluateStreamGenerationSpeed(max_instances,       *)
(* max_time, classifier, batch_size).eval(stream), states Idle, Running    *)
(* and Stopped.  The loop is the stream's only client while it runs.       *)
(***************************************************************************)
\* An empty or absent array, and the exhaustion signal made of two of them.
IsEmptyOrAbsent(a) == a = None \/ NumRows(a) = 0

IsExhaustionSignal(ret) == IsEmptyOrAbsent(ret[1]) /\ IsEmptyOrAbsent(ret[2])

\* Step 1 of an iteration: the stopping condition.
CapReached ==
    harness.max_instances # Unbounded
        /\ harness.processed >= harness.max_instances

TimeUp ==
    harness.max_time # Unbounded /\ harness.elapsed >= harness.max_time

StopCondition == CapReached \/ TimeUp \/ ~has_more_instances

\* The report emitted on the transition to Stopped.
StoppedWithReport ==
    [harness EXCEPT !.state = "Stopped",
                    !.reports = Append(harness.reports,
                                       [instances |-> harness.processed,
                                        elapsed |-> harness.elapsed])]

Start(max_instances, max_time, batch_size, classifier) ==
    /\ harness.state = "Idle"
    /\ harness' = [harness EXCEPT !.state = "Running",
                                   !.max_instances = max_instances,
                                   !.max_time = max_time,
                                   !.batch_size = batch_size,
                                   !.classifier = classifier]
    /\ UNCHANGED <<streamvars, result, log, clf>>

HarnessStart ==
    \E max_instances \in (1..MaxInstances) \cup {Unbounded},
       max_time \in (1..MaxTime) \cup {Unbounded},
       batch_size \in 1..MaxBatch, classifier \in BOOLEAN :
        Start(max_instances, max_time, batch_size, classifier)

HarnessStop ==
    /\ harness.state = "Running"
    /\ StopCondition
    /\ harness' = StoppedWithReport
    /\ UNCHANGED <<streamvars, result, log, clf>>

\* Steps 2 to 4: fetch a batch; stop on the exhaustion signal, else feed the
\* classifier if there is one, count batch_size instances and the time spent.
HarnessIterate ==
    /\ harness.state = "Running"
    /\ ~StopCondition
    /\ next_instance(harness.batch_size)
    /\ UNCHANGED clf
    /\ \E tick \in 0..1 :
        harness' =
            IF IsExhaustionSignal(next_batch(harness.batch_size))
            THEN StoppedWithReport
            ELSE [harness EXCEPT
                    !.processed = harness.processed + harness.batch_size,
                    !.elapsed = harness.elapsed + tick,
                    !.fed = harness.fed
                              + (IF harness.classifier THEN 1 ELSE 0)]

NextHarness == HarnessStart \/ HarnessStop \/ HarnessIterate

SpecHarness == Init /\ [][NextHarness]_vars

\* The loop is synchronous and single-threaded: once started it runs its
\* iterations one after the other until it stops.
SpecHarnessFair == SpecHarness /\ WF_vars(NextHarness)

(***************************************************************************)
(* The run of the scenario "sample_count = 50, batch_size = 7, no cap":    *)
(* the same loop over the same stream, started with that configuration.    *)
(***************************************************************************)
ScenarioSampleCounts == {50}
ScenarioBatches == {7}

InitScenario ==
    \E n_samples \in ScenarioSampleCounts, n_features \in FeatureCounts,
       n_targets \in 1..MaxTargets, seed \in Seeds :
        InitStream(n_samples, n_features, n_targets, seed)

ScenarioStart ==
    \E batch_size \in ScenarioBatches, classifier \in BOOLEAN :
        Start(Unbounded, Unbounded, batch_size, classifier)

NextScenario == ScenarioStart \/ HarnessStop \/ HarnessIterate

SpecScenario == InitScenario /\ [][NextScenario]_vars

(***************************************************************************)
(* A client fitting and querying a classifier.                             *)
(***************************************************************************)
FitArgs == [batch : Batches, classes : ClassArgs]

CanFit == clf.fit_calls + clf.partial_fit_calls < MaxFits

CallFirstFit ==
    /\ CanFit
    /\ \E a \in FitArgs :
        /\ clf' = first_fit(clf, a)
        /\ result' = [op |-> "first_fit", arg |-> a, val |-> None]
    /\ UNCHANGED <<streamvars, log, harness>>

CallFit ==
    /\ CanFit
    /\ \E a \in FitArgs :
        /\ clf' = fit(clf, a)
        /\ result' = [op |-> "fit", arg |-> a, val |-> None]
    /\ UNCHANGED <<streamvars, log, harness>>

CallPartialFit ==
    /\ CanFit
    /\ \E a \in FitArgs :
        /\ clf' = partial_fit(clf, a)
        /\ result' = [op |-> "partial_fit", arg |-> a, val |-> None]
    /\ UNCHANGED <<streamvars, log, harness>>

CallPredict ==
    /\ \E x \in Batches :
        result' = [op |-> "predict", arg |-> x, val |-> predict(clf, x)]
    /\ UNCHANGED <<streamvars, log, harness, clf>>

CallPredictProba ==
    /\ \E x \in Batches :
        result' = [op |-> "predict_proba", arg |-> x,
                   val |-> predict_proba(clf, x)]
    /\ UNCHANGED <<streamvars, log, harness, clf>>

CallScore ==
    /\ \E x \in Batches :
        result' = [op |-> "score", arg |-> x, val |-> score(clf, x)]
    /\ UNCHANGED <<streamvars, log, harness, clf>>

NextClassifier ==
    \/ CallFirstFit
    \/ CallFit
    \/ CallPartialFit
    \/ CallPredict
    \/ CallPredictProba
    \/ CallScore

SpecClassifier == Init /\ [][NextClassifier]_vars

(***************************************************************************)
(* Properties.                                                             *)
(***************************************************************************)
\* The cursor before the latest call, when that call was next_instance.
CursorBefore == instance_index - result.arg

\* What next_instance(k) returns on a freshly constructed stream.
FreshBatch(k) ==
    <<Slice(X, 0, k),
      IF num_target_tasks < 2 THEN flatten(Slice(y, 0, k)) ELSE Slice(y, 0, k)>>

\* C1: in every reachable state has_more_instances() is true iff
\* estimated_remaining_instances() > 0, that is iff num_samples -
\* instance_index > 0, and a has_more_instances() call returns that value.
C1_HasMoreIffRemaining ==
    /\ has_more_instances <=> estimated_remaining_instances > 0
    /\ has_more_instances <=> num_samples - instance_index > 0
    /\ result.op = "has_more_instances"
        => (result.val <=> estimated_remaining_instances > 0)

\* has_more_instances() answered false on a stream read past its end and
\* then restarted.
C1_Witness ==
    /\ result.op = "has_more_instances"
    /\ result.val = FALSE
    /\ instance_index > num_samples
    /\ log.since_restart >= 0

\* C2: when every next_instance call made since construction had the same
\* batch size b and b divides num_samples = N, each of the first N/b calls
\* returns b rows of features and of labels, has_more_instances() is true
\* after each of the first N/b - 1 and false after the N/b-th, and every call
\* after that returns the exhaustion signal: N/b non-empty batches, N rows.
C2_EvenBatches ==
    LET b == log.common
        k == log.calls
        q == num_samples \div b
    IN  (k > 0 /\ b > 0 /\ num_samples % b = 0) =>
            /\ k <= q =>
                /\ NumRows(log.last[1]) = b
                /\ NumRows(log.last[2]) = b
                /\ log.nonempty = k
                /\ log.rowsum = k * b
                /\ has_more_instances <=> k < q
            /\ k > q =>
                /\ IsExhaustionSignal(log.last)
                /\ log.nonempty = q
                /\ log.rowsum = num_samples
                /\ ~has_more_instances

\* Four samples read two at a time: the third call has just returned the
\* exhaustion signal.
C2_Witness ==
    /\ num_samples = 4
    /\ log.common = 2
    /\ log.calls = 3
    /\ log.nonempty = 2
    /\ result.op = "next_instance"
    /\ IsExhaustionSignal(result.val)

\* C3: a next_instance(batch_size) call made when 0 < num_samples -
\* instance_index < batch_size does not return a non-empty batch of fewer
\* than batch_size rows.
C3_NoShortBatch ==
    (/\ result.op = "next_instance"
     /\ 0 < num_samples - CursorBefore
     /\ num_samples - CursorBefore < result.arg)
        => ~(/\ 0 < NumRows(result.val[1])
             /\ NumRows(result.val[1]) < result.arg)

\* C4: a next_instance call made once the cursor has reached or passed
\* num_samples returns the exhaustion signal, features and labels both empty
\* or absent, however many calls came before it.  The call always returns:
\* the slices are the only operations that could raise, they do not
\* (SliceRaises), and an IndexError would be caught and turned into
\* (None, None).
C4_ExhaustedStaysExhausted ==
    (result.op = "next_instance" /\ CursorBefore >= num_samples)
        => /\ IsEmptyOrAbsent(result.val[1])
           /\ IsEmptyOrAbsent(result.val[2])
           /\ get_last_instance = result.val

\* A third call in a row on a stream whose cursor had already passed the end.
C4_Witness ==
    /\ result.op = "next_instance"
    /\ CursorBefore > num_samples
    /\ log.calls - log.nonempty >= 2
    /\ IsExhaustionSignal(result.val)

\* C5: after restart() the cursor is 0, and the first next_instance(k) after
\* it returns what next_instance(k) returns on the freshly constructed
\* stream.
C5_RestartReplays ==
    /\ result.op = "restart" => instance_index = 0
    /\ (result.op = "next_instance" /\ log.since_restart = 1)
        => result.val = FreshBatch(result.arg)

\* C6 as stated: the cursor stays within 0..num_samples.
C6_CursorInRange == 0 <= instance_index /\ instance_index <= num_samples

\* C6, amended: the cursor is never negative, and it is at most num_samples
\* as long as no next_instance call asked for more rows than were left; a
\* call that asks for more takes it past num_samples.
C6_CursorBounds ==
    /\ 0 <= instance_index
    /\ log.fits => instance_index <= num_samples
    /\ (result.op = "next_instance" /\ result.arg > num_samples - CursorBefore)
        => instance_index > num_samples

\* The stream read to its exact end in two or more calls that all fitted.
C6_Witness ==
    /\ log.fits
    /\ log.calls >= 2
    /\ result.op = "next_instance"
    /\ instance_index = num_samples

\* C7: estimated_remaining_instances() is num_samples - instance_index, and
\* the value it returns to its caller is never negative.
C7_RemainingNeverNegative ==
    /\ estimated_remaining_instances = num_samples - instance_index
    /\ result.op = "estimated_remaining_instances" => result.val >= 0

\* C8: a next_instance(batch_size) call made while rows remain returns
\* features that are 2-D with num_features columns, and labels that are a
\* flat sequence of length batch_size when there is one target, a 2-D array
\* of batch_size rows and num_target_tasks columns when there are more.
C8_LabelShape ==
    (result.op = "next_instance" /\ CursorBefore < num_samples) =>
        /\ result.val[1].kind = "array2d"
        /\ result.val[1].ncols = num_features
        /\ num_target_tasks = 1 =>
            /\ result.val[2].kind = "array1d"
            /\ Len(result.val[2].elems) = result.arg
        /\ num_target_tasks >= 2 =>
            /\ result.val[2].kind = "array2d"
            /\ result.val[2].ncols = num_target_tasks
            /\ Len(result.val[2].rows) = result.arg

\* C9: get_last_instance() is the pair the latest next_instance call
\* returned, the exhaustion signal included, and (None, None) before any
\* call; a get_last_instance() call returns it and leaves it as it is.
C9_LastInstanceIsLastReturned ==
    /\ get_last_instance = log.last
    /\ log.calls = 0 => get_last_instance = <<None, None>>
    /\ result.op = "get_last_instance" => result.val = log.last

\* get_last_instance() called after a next_instance call that returned the
\* exhaustion signal, itself after a non-empty batch.
C9_Witness ==
    /\ result.op = "get_last_instance"
    /\ log.nonempty >= 1
    /\ log.calls > log.nonempty
    /\ IsExhaustionSignal(result.val)
    /\ result.val # <<None, None>>

\* The runs C10 is about: no classifier, a cap of M instances, a batch size
\* that divides M, no time limit, a stream of at least M samples; stopped.
C10_Run ==
    /\ harness.state = "Stopped"
    /\ ~harness.classifier
    /\ harness.max_instances # Unbounded
    /\ harness.max_instances % harness.batch_size = 0
    /\ harness.max_time = Unbounded
    /\ num_samples >= harness.max_instances

\* C10 as stated: such a run reports exactly M instances and stops on the
\* cap while has_more_instances() is still true.
C10_StopsOnCap ==
    C10_Run =>
        /\ Len(harness.reports) = 1
        /\ harness.reports[1].instances = harness.max_instances
        /\ CapReached
        /\ has_more_instances

\* C10, amended: such a run reports exactly M instances with the cap
\* reached; has_more_instances() is still true then iff the stream has more
\* than M samples.
C10_StopsOnCapStrict ==
    C10_Run =>
        /\ Len(harness.reports) = 1
        /\ harness.reports[1].instances = harness.max_instances
        /\ CapReached
        /\ has_more_instances <=> num_samples > harness.max_instances

\* A run capped at 2 instances, read one at a time from 4 samples.
C10_Witness ==
    /\ C10_Run
    /\ harness.max_instances = 2
    /\ harness.batch_size = 1
    /\ num_samples = 4
    /\ harness.reports[1].instances = 2
    /\ has_more_instances

\* C11: the run with no cap on instances or time, batch_size = 7, against a
\* stream of 50 samples, ends with 49 instances reported.
C11_Reports49 ==
    (/\ harness.state = "Stopped"
     /\ num_samples = 50
     /\ harness.batch_size = 7
     /\ harness.max_instances = Unbounded
     /\ harness.max_time = Unbounded)
        => /\ Len(harness.reports) = 1
           /\ harness.reports[1].instances = 49

\* The error a classifier that was never fitted is to answer a query with.
UnfitModelError == [kind |-> "UnfitModelError"]

\* C12: predict, predict_proba or score called on a classifier on which none
\* of first_fit, fit and partial_fit was called is answered with the
\* unfit-model error, never with a value.
C12_UnfitRejected ==
    (result.op \in {"predict", "predict_proba", "score"} /\ ~clf.fitted)
        => result.val = UnfitModelError

\* C13: a first_fit(X, y, classes) call leaves the classifier as
\* fit(X, y, classes) would leave it, and fit has run exactly once more.
C13_FirstFitDelegates ==
    [][result'.op = "first_fit" =>
          /\ clf' = fit(clf, result'.arg)
          /\ clf'.fit_calls = clf.fit_calls + 1
          /\ clf'.partial_fit_calls = clf.partial_fit_calls]_vars

\* first_fit called on a classifier that partial_fit had already updated:
\* the model is the one fit builds from the batch of the call alone.
C13_Witness ==
    /\ result.op = "first_fit"
    /\ clf.partial_fit_calls >= 1
    /\ clf.fit_calls = 1
    /\ clf.model = FitModel(result.arg)

\* C14: every next_instance(batch_size) call advances the cursor by exactly
\* batch_size, rows left or not: the cursor is the sum of the batch sizes
\* asked for since construction, and estimated_remaining_instances() is
\* num_samples minus that sum.
C14_CursorIsSumOfBatchSizes ==
    /\ instance_index = log.requested
    /\ estimated_remaining_instances = num_samples - log.requested
    /\ result.op = "next_instance"
        => instance_index = CursorBefore + result.arg
    /\ result.op = "estimated_remaining_instances"
        => result.val = num_samples - log.requested

\* The docstring's example in small: calls of 1 and of 2 on 4 samples, then
\* estimated_remaining_instances() returns 1.
C14_Witness ==
    /\ result.op = "estimated_remaining_instances"
    /\ num_samples = 4
    /\ log.calls = 2
    /\ log.common = -1
    /\ log.requested = 3
    /\ result.val = 1

\* The calls that only read the stream.
QueryOps ==
    {"has_more_instances", "estimated_remaining_instances",
     "get_last_instance", "is_restartable", "get_num_attributes",
     "get_num_targets", "get_num_targeting_tasks", "get_classes"}

\* C15: no step changes num_samples or the two matrices; the cursor changes
\* only in a next_instance step (forward) or a restart step (to 0); a step of
\* a read-only call leaves the cursor and the cached batch as they were.
C15_Frame ==
    [][/\ X' = X
       /\ y' = y
       /\ num_samples' = num_samples
       /\ instance_index' # instance_index
            => result'.op \in {"next_instance", "restart"}
       /\ (result'.op = "next_instance" /\ instance_index' # instance_index)
            => instance_index' > instance_index
       /\ (result'.op = "restart" /\ instance_index' # instance_index)
            => instance_index' = 0
       /\ result'.op \in QueryOps
            => /\ instance_index' = instance_index
               /\ current_instance_x' = current_instance_x
               /\ current_instance_y' = current_instance_y]_vars

\* get_last_instance() called with a batch cached, after the stream was
\* read and restart() called: the cursor and the batch are still there.
C15_Witness ==
    /\ result.op = "get_last_instance"
    /\ log.since_restart >= 1
    /\ instance_index > 0
    /\ current_instance_x # None
    /\ result.val = log.last

\* C16: a started loop reaches Stopped, also with no cap on instances or
\* time and no classifier, after at most as many iterations as it takes to
\* pass the end of the stream; Stopped is final, and the report is emitted
\* exactly once, on the transition to Stopped.
C16_Terminates ==
    /\ (harness.state = "Running") ~> (harness.state = "Stopped")
    /\ [](harness.state = "Stopped" <=> Len(harness.reports) = 1)
    /\ [](Len(harness.reports) <= 1)
    /\ [](harness.processed < num_samples + harness.batch_size)
    /\ [][harness.state = "Stopped" => harness' = harness]_vars

\* A run with no cap and no classifier, stopped by the stream's exhaustion.
C16_Witness ==
    /\ harness.state = "Stopped"
    /\ harness.max_instances = Unbounded
    /\ harness.max_time = Unbounded
    /\ ~harness.classifier
    /\ Len(harness.reports) = 1
    /\ ~has_more_instances
    /\ harness.processed >= num_samples

C18_EmptyIffExhausted ==
    result.op = "next_instance" =>
        /\ result.val[1] # None
        /\ result.val[2] # None
        /\ NumRows(result.val[1]) = 0 <=> ~log.more_before
        /\ NumRows(result.val[2]) = 0 <=> ~log.more_before
        /\ log.more_before <=> num_samples - CursorBefore > 0

\* A call that asked for more rows than were left and got the rest, and one
\* on the exhausted stream that got empty arrays, not None.
C18_Witness ==
    /\ result.op = "next_instance"
    /\ ~log.more_before
    /\ log.calls > log.nonempty
    /\ ~log.fits
    /\ log.rowsum = num_samples
    /\ result.val[1].kind = "array2d"
    /\ NumRows(result.val[1]) = 0

====
